---- MODULE Spec2Model ----
(***************************************************************************)
(* Pedigree / compatibility engine of backend-pet-care-dev                 *)
(* (services/parametrosPet.service.js, models/Pet.js,                      *)
(* models/ParametrosPet.js).                                               *)
(*                                                                         *)
(* Percentages are dyadic rationals (sums of 100 * 0.5^n with n <= 20),    *)
(* which a double represents exactly; the model stores a percentage p as   *)
(* the integer p * Escala / 100, so that 100% is Escala.                   *)
(***************************************************************************)
EXTENDS Integers, Sequences, FiniteSets, TLC

VARIABLES pets, parametros, resposta, pc, loc

vars == <<pets, parametros, resposta, pc, loc>>

(***************************************************************************)
(* Bounds of the model.                                                    *)
(***************************************************************************)
\* identifiers 1..NumPets may have a Pet record
NumPets == 7
\* the exhaustive family of pedigrees uses the records 1..NumPequeno
NumPequeno == 2
\* concurrent requests in flight
NumProcs == 2
\* requests each process may start
MaxPedidos == 2

PetIds == 1 .. NumPets
\* an ObjectId that no Pet record carries
IdAusente == NumPets + 1
Ids == PetIds \cup {IdAusente}
\* a pai/mae field that is not set
SemRef == 0
Procs == 1 .. NumProcs

(***************************************************************************)
(* Program constants.                                                      *)
(***************************************************************************)
\* geracoesConsanguinidade: default, min, max (models/ParametrosPet.js)
GeracoesPadrao == 5
GeracoesMin == 1
GeracoesMax == 10
Escala == 2 ^ (2 * GeracoesMax)
P100 == Escala
P50 == Escala \div 2
P25 == Escala \div 4
\* limiteConsanguinidade: default 12.5, min 0, max 100
LimitePadrao == Escala \div 8
LimiteMin == 0
LimiteMax == P100

\* a Number path holding null: the schema marks neither number as required
ValorNulo == -1

\* ToNumber, as the comparison operators apply it: null counts as 0
ANumero(v) == IF v = ValorNulo THEN 0 ELSE v

Generos == {"macho", "femea"}
Graus == {"A", "B", "C", "D", "E"}
GrausNormais == {"A", "B"}

\* a default that also lets grade C pair with grade C
MatrizPadraoComC ==
  [g1 \in Graus |->
     [g2 \in Graus |-> (g1 \in GrausNormais /\ g2 \in GrausNormais)
                          \/ (g1 = "C" /\ g2 = "C")]]

\* matrizDisplasia default of the schema
MatrizPadrao == [g1 \in Graus |-> [g2 \in Graus |-> g1 \in GrausNormais /\ g2 \in GrausNormais]]

\* ParametrosPet.create({ativo: true}): every other field takes its default
ParametrosPadrao ==
  [ativo |-> TRUE,
   limiteConsanguinidade |-> LimitePadrao,
   geracoesConsanguinidade |-> GeracoesPadrao,
   matrizDisplasia |-> MatrizPadrao]

(***************************************************************************)
(* Mongoose values.  null is Nulo; toString() of an ObjectId is its hex    *)
(* string, toString() of a Document (what populate() leaves in the field)  *)
(* is the printed document, never the hex string of its _id.               *)
(***************************************************************************)
Nulo == [nulo |-> TRUE]

ObjectIdToString(id) == <<"ObjectId", id>>

DocumentToString(doc) == <<"Document", doc._id>>

\* Pet.findById(id): the record, or null
\* a lookup that does not see a deactivated record
PetFindByIdAtivo(ps, id) ==
  IF id \in DOMAIN ps /\ ps[id].ativo
    THEN [_id |-> id, pai |-> ps[id].pai, mae |-> ps[id].mae,
          genero |-> ps[id].genero, displasia |-> ps[id].displasia]
    ELSE Nulo

PetFindById(ps, id) ==
  IF id \in DOMAIN ps
    THEN [_id |-> id, pai |-> ps[id].pai, mae |-> ps[id].mae,
          genero |-> ps[id].genero, displasia |-> ps[id].displasia]
    ELSE Nulo

\* populate(campo): the referenced document, or null when the field is unset or
\* no document has that _id
Populate(ps, ref) ==
  IF ref # SemRef /\ ref \in DOMAIN ps THEN [_id |-> ref] ELSE Nulo

\* a lookup that answers a bare document for an identifier without a record
getPetComAncestralSemNulo(ps, petId) ==
  [_id |-> petId,
   pai |-> IF petId \in DOMAIN ps THEN Populate(ps, ps[petId].pai) ELSE Nulo,
   mae |-> IF petId \in DOMAIN ps THEN Populate(ps, ps[petId].mae) ELSE Nulo]

\* Pet.findById(petId).populate('pai').populate('mae').exec()
getPetComAncestral(ps, petId) ==
  IF petId \in DOMAIN ps
    THEN [_id |-> petId,
          pai |-> Populate(ps, ps[petId].pai),
          mae |-> Populate(ps, ps[petId].mae)]
    ELSE Nulo

(***************************************************************************)
(* ParametrosPet collection: a sequence of records in insertion order.     *)
(***************************************************************************)
\* ParametrosPet.findOne({ativo: true}): index of the first active record, 0 if none
FindOneAtivo(params) ==
  IF \E i \in 1 .. Len(params) : params[i].ativo
    THEN CHOOSE i \in 1 .. Len(params) :
           params[i].ativo /\ \A j \in 1 .. (i - 1) : ~params[j].ativo
    ELSE 0

\* a getParametros that inserts a default record without looking for one
getParametrosSempreCria(params) ==
  [idx |-> Len(params) + 1, params |-> Append(params, ParametrosPadrao)]

\* getParametros run without interleaving: [idx, params]
getParametros(params) ==
  LET i == FindOneAtivo(params) IN
  IF i = 0
    THEN [idx |-> Len(params) + 1, params |-> Append(params, ParametrosPadrao)]
    ELSE [idx |-> i, params |-> params]

(***************************************************************************)
(* montarArvoreGenealogica: the Map is a sequence of entries in insertion  *)
(* order, the queue a sequence of [id, geracao].                           *)
(***************************************************************************)
ArvoreHas(arvore, id) == \E k \in 1 .. Len(arvore) : arvore[k].id = id

ArvoreGet(arvore, id) == arvore[CHOOSE k \in 1 .. Len(arvore) : arvore[k].id = id]

\* a bound test that lets one generation too many through
AlemDoLimiteFrouxo(geracao, geracoes) == geracao > geracoes + 1

\* if (geracao > geracoes) continue
AlemDoLimite(geracao, geracoes) == geracao > geracoes

\* an iteration that leaves an already visited entry at the head of the queue
MontarPassoSemShift(ps, st, geracoes) ==
  LET item == Head(st.fila)
      resto == Tail(st.fila)
  IN
  IF AlemDoLimite(item.geracao, geracoes) THEN [st EXCEPT !.fila = resto]
  ELSE IF ArvoreHas(st.arvore, item.id) THEN st
  ELSE IF item.id \notin DOMAIN ps
    THEN [st EXCEPT !.fila = resto, !.buscas = @ + 1]
  ELSE
    LET comPai == IF ps[item.id].pai # SemRef
                    THEN Append(resto, [id |-> ps[item.id].pai, geracao |-> item.geracao + 1])
                    ELSE resto
        comMae == IF ps[item.id].mae # SemRef
                    THEN Append(comPai, [id |-> ps[item.id].mae, geracao |-> item.geracao + 1])
                    ELSE comPai
    IN [arvore |-> Append(st.arvore, [id |-> item.id, geracao |-> item.geracao]),
        fila |-> comMae,
        buscas |-> st.buscas + 1]

\* an iteration that takes the newest entry of the queue instead of the oldest
MontarPassoPilha(ps, st, geracoes) ==
  LET item == st.fila[Len(st.fila)]
      resto == SubSeq(st.fila, 1, Len(st.fila) - 1)
  IN
  IF AlemDoLimite(item.geracao, geracoes) THEN [st EXCEPT !.fila = resto]
  ELSE IF ArvoreHas(st.arvore, item.id) THEN [st EXCEPT !.fila = resto]
  ELSE IF item.id \notin DOMAIN ps
    THEN [st EXCEPT !.fila = resto, !.buscas = @ + 1]
  ELSE
    LET comPai == IF ps[item.id].pai # SemRef
                    THEN Append(resto, [id |-> ps[item.id].pai, geracao |-> item.geracao + 1])
                    ELSE resto
        comMae == IF ps[item.id].mae # SemRef
                    THEN Append(comPai, [id |-> ps[item.id].mae, geracao |-> item.geracao + 1])
                    ELSE comPai
    IN [arvore |-> Append(st.arvore, [id |-> item.id, geracao |-> item.geracao]),
        fila |-> comMae,
        buscas |-> st.buscas + 1]

\* an iteration that records an identifier even when no record answers
MontarPassoSemPoda(ps, st, geracoes) ==
  LET item == Head(st.fila)
      resto == Tail(st.fila)
  IN
  IF AlemDoLimite(item.geracao, geracoes) THEN [st EXCEPT !.fila = resto]
  ELSE IF ArvoreHas(st.arvore, item.id) THEN [st EXCEPT !.fila = resto]
  ELSE
    LET pai == IF item.id \in DOMAIN ps THEN ps[item.id].pai ELSE SemRef
        mae == IF item.id \in DOMAIN ps THEN ps[item.id].mae ELSE SemRef
        comPai == IF pai # SemRef
                    THEN Append(resto, [id |-> pai, geracao |-> item.geracao + 1])
                    ELSE resto
        comMae == IF mae # SemRef
                    THEN Append(comPai, [id |-> mae, geracao |-> item.geracao + 1])
                    ELSE comPai
    IN [arvore |-> Append(st.arvore, [id |-> item.id, geracao |-> item.geracao]),
        fila |-> comMae,
        buscas |-> st.buscas + 1]

\* one iteration of the while loop
MontarPasso(ps, st, geracoes) ==
  LET item == Head(st.fila)
      resto == Tail(st.fila)
  IN
  IF AlemDoLimite(item.geracao, geracoes) THEN [st EXCEPT !.fila = resto]
  ELSE IF ArvoreHas(st.arvore, item.id) THEN [st EXCEPT !.fila = resto]
  ELSE IF item.id \notin DOMAIN ps
    THEN [st EXCEPT !.fila = resto, !.buscas = @ + 1]
  ELSE
    LET comPai == IF ps[item.id].pai # SemRef
                    THEN Append(resto, [id |-> ps[item.id].pai, geracao |-> item.geracao + 1])
                    ELSE resto
        comMae == IF ps[item.id].mae # SemRef
                    THEN Append(comPai, [id |-> ps[item.id].mae, geracao |-> item.geracao + 1])
                    ELSE comPai
    IN [arvore |-> Append(st.arvore, [id |-> item.id, geracao |-> item.geracao]),
        fila |-> comMae,
        buscas |-> st.buscas + 1]

\* a start that queues the root at generation 1
MontarInicioUm(petId) ==
  [arvore |-> <<>>, fila |-> <<[id |-> petId, geracao |-> 1]>>, buscas |-> 0]

MontarInicio(petId) ==
  [arvore |-> <<>>, fila |-> <<[id |-> petId, geracao |-> 0]>>, buscas |-> 0]

RECURSIVE MontarLaco(_, _, _)
MontarLaco(ps, st, geracoes) ==
  IF st.fila = <<>> THEN st ELSE MontarLaco(ps, MontarPasso(ps, st, geracoes), geracoes)

montarArvoreGenealogica(ps, petId, geracoes) ==
  MontarLaco(ps, MontarInicio(petId), geracoes).arvore

\* an intersection that skips the first entry of arvore1, its root
encontrarAncestraisComunsSemRaiz(arvore1, arvore2) ==
  SelectSeq([k \in 1 .. (Len(arvore1) - 1) |-> arvore1[k + 1].id],
            LAMBDA id : ArvoreHas(arvore2, id))

\* ids of arvore1, in its order, that arvore2 has too
encontrarAncestraisComuns(arvore1, arvore2) ==
  SelectSeq([k \in 1 .. Len(arvore1) |-> arvore1[k].id],
            LAMBDA id : ArvoreHas(arvore2, id))

\* a contribution that reads the first generation twice
ContribuicaoSoN1(n1, n2) == Escala \div (2 ^ (n1 + n1))

\* Math.pow(0.5, n1 + n2), as a percentage
Contribuicao(n1, n2) == Escala \div (2 ^ (n1 + n2))

RECURSIVE SomaContribuicoes(_, _, _)
SomaContribuicoes(comuns, arvore1, arvore2) ==
  IF comuns = <<>> THEN 0
  ELSE Contribuicao(ArvoreGet(arvore1, Head(comuns)).geracao,
                    ArvoreGet(arvore2, Head(comuns)).geracao)
       + SomaContribuicoes(Tail(comuns), arvore1, arvore2)

\* parametros.geracoesConsanguinidade || 5
GeracoesEfetivas(reg) ==
  IF reg.geracoesConsanguinidade \in {0, ValorNulo}
    THEN GeracoesPadrao ELSE reg.geracoesConsanguinidade

\* a sum that answers 100 when there is no common ancestor
WrightValorSemZero(ps, id1, id2, geracoes) ==
  LET arvore1 == montarArvoreGenealogica(ps, id1, geracoes)
      arvore2 == montarArvoreGenealogica(ps, id2, geracoes)
      comuns == encontrarAncestraisComuns(arvore1, arvore2)
  IN IF Len(comuns) = 0 THEN P100 ELSE SomaContribuicoes(comuns, arvore1, arvore2)

\* the arithmetic of calcularConsanguinidadeWright once the policy is read
WrightValor(ps, id1, id2, geracoes) ==
  LET arvore1 == montarArvoreGenealogica(ps, id1, geracoes)
      arvore2 == montarArvoreGenealogica(ps, id2, geracoes)
      comuns == encontrarAncestraisComuns(arvore1, arvore2)
  IN IF Len(comuns) = 0 THEN 0 ELSE SomaContribuicoes(comuns, arvore1, arvore2)

\* calcularConsanguinidadeWright run without interleaving: [valor, params]
calcularConsanguinidadeWright(ps, params, pet1, pet2) ==
  LET g == getParametros(params)
      geracoes == GeracoesEfetivas(g.params[g.idx])
  IN [valor |-> WrightValor(ps, pet1._id, pet2._id, geracoes), params |-> g.params]

(***************************************************************************)
(* calcularConsanguinidade                                                 *)
(***************************************************************************)
\* an identity test that never matches
MesmoPetNunca(pet1, pet2) == FALSE

\* pet1._id.toString() === pet2._id.toString()
MesmoPet(pet1, pet2) == ObjectIdToString(pet1._id) = ObjectIdToString(pet2._id)

\* pet1.pai && pet1.pai.toString() === pet2._id.toString(), and the three others
EhPaiOuFilho(pet1, pet2) ==
  \/ (pet1.pai # Nulo /\ DocumentToString(pet1.pai) = ObjectIdToString(pet2._id))
  \/ (pet1.mae # Nulo /\ DocumentToString(pet1.mae) = ObjectIdToString(pet2._id))
  \/ (pet2.pai # Nulo /\ DocumentToString(pet2.pai) = ObjectIdToString(pet1._id))
  \/ (pet2.mae # Nulo /\ DocumentToString(pet2.mae) = ObjectIdToString(pet1._id))

IrmaosCompletos(pet1, pet2) ==
  /\ pet1.pai # Nulo /\ pet2.pai # Nulo /\ pet1.mae # Nulo /\ pet2.mae # Nulo
  /\ DocumentToString(pet1.pai) = DocumentToString(pet2.pai)
  /\ DocumentToString(pet1.mae) = DocumentToString(pet2.mae)

MeioIrmaos(pet1, pet2) ==
  \/ (pet1.pai # Nulo /\ pet2.pai # Nulo
        /\ DocumentToString(pet1.pai) = DocumentToString(pet2.pai))
  \/ (pet1.mae # Nulo /\ pet2.mae # Nulo
        /\ DocumentToString(pet1.mae) = DocumentToString(pet2.mae))

\* [status, valor, params, caminho]: caminho names the return statement taken
calcularConsanguinidade(ps, params, petId1, petId2) ==
  LET pet1 == getPetComAncestral(ps, petId1)
      pet2 == getPetComAncestral(ps, petId2)
  IN
  IF pet1 = Nulo \/ pet2 = Nulo
    THEN [status |-> "erro", valor |-> 0, params |-> params, caminho |-> "naoEncontrado"]
  ELSE IF MesmoPet(pet1, pet2)
    THEN [status |-> "ok", valor |-> P100, params |-> params, caminho |-> "mesmo"]
  ELSE IF EhPaiOuFilho(pet1, pet2)
    THEN [status |-> "ok", valor |-> P50, params |-> params, caminho |-> "paiFilho"]
  ELSE IF IrmaosCompletos(pet1, pet2)
    THEN [status |-> "ok", valor |-> P50, params |-> params, caminho |-> "irmaos"]
  ELSE IF MeioIrmaos(pet1, pet2)
    THEN [status |-> "ok", valor |-> P25, params |-> params, caminho |-> "meioIrmaos"]
  ELSE
    LET w == calcularConsanguinidadeWright(ps, params, pet1, pet2)
    IN [status |-> "ok", valor |-> w.valor, params |-> w.params, caminho |-> "wright"]

\* parseFloat(x.toFixed(2)), in hundredths of a percent (ties round up)
ToFixed2(v) == (v * (10000 \div 16) + (Escala \div 32)) \div (Escala \div 16)

(***************************************************************************)
(* verificarCompatibilidadeDisplasia and verificarCompatibilidade, run     *)
(* without interleaving.                                                   *)
(***************************************************************************)
\* a lookup that reads the cell of the second grade's row
ConsultaMatrizTransposta(matriz, displasia1, displasia2) ==
  IF matriz = Nulo THEN FALSE
  ELSE IF displasia2 \notin DOMAIN matriz THEN FALSE
  ELSE IF displasia1 \notin DOMAIN matriz[displasia2] THEN FALSE
  ELSE matriz[displasia2][displasia1]

\* a lookup that answers true for a pair without a stored cell
ConsultaMatrizAberta(matriz, displasia1, displasia2) ==
  IF matriz = Nulo THEN FALSE
  ELSE IF displasia1 \notin DOMAIN matriz THEN FALSE
  ELSE IF displasia2 \notin DOMAIN matriz[displasia1] THEN TRUE
  ELSE matriz[displasia1][displasia2]

\* the lookup in matrizDisplasia, false when the matrix, the row or the cell is missing
ConsultaMatriz(matriz, displasia1, displasia2) ==
  IF matriz = Nulo THEN FALSE
  ELSE IF displasia1 \notin DOMAIN matriz THEN FALSE
  ELSE IF displasia2 \notin DOMAIN matriz[displasia1] THEN FALSE
  ELSE matriz[displasia1][displasia2]

\* [valor, params]
verificarCompatibilidadeDisplasia(params, displasia1, displasia2) ==
  LET g == getParametros(params)
  IN [valor |-> ConsultaMatriz(g.params[g.idx].matrizDisplasia, displasia1, displasia2),
      params |-> g.params]

\* a limit test with the comparison turned around
ForaDoLimite(consanguinidade, limite) == consanguinidade >= limite

\* a limit test on the value rounded to two decimals
DentroDoLimiteArredondado(consanguinidade, limite) ==
  ToFixed2(consanguinidade) * (Escala \div 16) <= limite * (10000 \div 16)

\* consanguinidade <= parametros.limiteConsanguinidade
DentroDoLimite(consanguinidade, limite) == consanguinidade <= ANumero(limite)

\* a conjunction that leaves the relatedness test out
ConjuncaoSemConsanguinidade(generoCompativel, consanguinidadeCompativel, displasiaCompativel) ==
  generoCompativel /\ displasiaCompativel

\* generoCompativel && consanguinidadeCompativel && displasiaCompativel
Conjuncao(generoCompativel, consanguinidadeCompativel, displasiaCompativel) ==
  generoCompativel /\ consanguinidadeCompativel /\ displasiaCompativel

\* [status, params, generoCompativel, valor, consanguinidade,
\*  consanguinidadeCompativel, displasiaCompativel, compativel, caminho]
verificarCompatibilidade(ps, params, petId1, petId2) ==
  LET pet1 == PetFindById(ps, petId1)
      pet2 == PetFindById(ps, petId2)
  IN
  IF pet1 = Nulo \/ pet2 = Nulo
    THEN [status |-> "erro", params |-> params, generoCompativel |-> FALSE,
          valor |-> 0, consanguinidade |-> 0, consanguinidadeCompativel |-> FALSE,
          displasiaCompativel |-> FALSE, compativel |-> FALSE,
          caminho |-> "naoEncontrado"]
  ELSE
    LET generoCompativel == pet1.genero # pet2.genero
        c == calcularConsanguinidade(ps, params, petId1, petId2)
        g == getParametros(c.params)
        consanguinidadeCompativel ==
          DentroDoLimite(c.valor, g.params[g.idx].limiteConsanguinidade)
        d == verificarCompatibilidadeDisplasia(g.params, pet1.displasia, pet2.displasia)
    IN [status |-> c.status, params |-> d.params,
        generoCompativel |-> generoCompativel,
        valor |-> c.valor,
        consanguinidade |-> ToFixed2(c.valor),
        consanguinidadeCompativel |-> consanguinidadeCompativel,
        displasiaCompativel |-> d.valor,
        compativel |-> Conjuncao(generoCompativel, consanguinidadeCompativel, d.valor),
        caminho |-> c.caminho]

(***************************************************************************)
(* Pet collection: a function from the _id of every stored record.         *)
(* pai/mae take any ObjectId the caller sends (POST/PUT /api/pets do not   *)
(* check that it names a record, nor that the graph stays acyclic).        *)
(***************************************************************************)
PetRegistro(pai, mae, i) ==
  [pai |-> pai, mae |-> mae,
   genero |-> IF i % 2 = 1 THEN "macho" ELSE "femea",
   displasia |-> "A", ativo |-> TRUE]

\* every pedigree over the records 1..NumPequeno whose references are unset or
\* name one of these records (cycles and self-references included)
RefsPequenos == 0 .. NumPequeno

PedigreesPequenos ==
  { [i \in 1 .. NumPequeno |-> PetRegistro(f[i][1], f[i][2], i)] :
      f \in [1 .. NumPequeno -> RefsPequenos \X RefsPequenos] }

PedigreeDe(pais, maes) ==
  [i \in PetIds |->
     PetRegistro(IF i \in DOMAIN pais THEN pais[i] ELSE SemRef,
                 IF i \in DOMAIN maes THEN maes[i] ELSE SemRef, i)]

\* 1 and 2 descend from 7 through three sires each: 1-3-5-7 and 2-4-6-7
BaseBisavo ==
  PedigreeDe((1 :> 3) @@ (3 :> 5) @@ (5 :> 7) @@ (2 :> 4) @@ (4 :> 6) @@ (6 :> 7),
             <<>>)

\* 1 and 2 have the sire 3, dams 4 and 5 that share the sire 6; 3 has the sire 7
BaseMeioIrmaos ==
  PedigreeDe((1 :> 3) @@ (2 :> 3) @@ (4 :> 6) @@ (5 :> 6) @@ (3 :> 7),
             (1 :> 4) @@ (2 :> 5))

\* 1 and 2 name the sire 8, which has no record; 1 has the dam 4, whose sire is 6
BaseReferenciaSolta ==
  PedigreeDe((1 :> IdAusente) @@ (2 :> IdAusente) @@ (4 :> 6), (1 :> 4))

Bases == {BaseBisavo, BaseMeioIrmaos, BaseReferenciaSolta}

\* a base pedigree with one parent reference of one record rewritten
Variantes(base) ==
  { [base EXCEPT ![i].pai = r] : i \in PetIds, r \in 0 .. IdAusente }
    \cup { [base EXCEPT ![i].mae = r] : i \in PetIds, r \in 0 .. IdAusente }

Pedigrees == PedigreesPequenos \cup UNION { Variantes(b) : b \in Bases }

\* the stored maximum generations the pedigree specifications start from
MaxGeracoesTeste == 2

ParametrosIniciais ==
  {<<>>} \cup { <<[ParametrosPadrao EXCEPT !.geracoesConsanguinidade = g]>> :
                  g \in 1 .. MaxGeracoesTeste }

(***************************************************************************)
(* Responses.                                                              *)
(***************************************************************************)
RespostaVazia ==
  [op |-> "nenhuma", petId1 |-> 0, petId2 |-> 0, status |-> 0, caminho |-> "",
   valor |-> 0, coeficiente |-> 0, generoCompativel |-> FALSE,
   consanguinidadeCompativel |-> FALSE, displasiaCompativel |-> FALSE,
   compativel |-> FALSE, displasia1 |-> "", displasia2 |-> ""]

ProcsOciosos == [p \in Procs |-> "ocioso"]

\* what PUT /api/parametros-pet may carry: the fields present and their values
NovosVazio ==
  [campos |-> {}, limiteConsanguinidade |-> 0, geracoesConsanguinidade |-> 0,
   matrizDisplasia |-> Nulo]

\* a matrix that also lets grade C pair with the normal grades
MatrizAlternativa ==
  [g1 \in Graus |-> [g2 \in Graus |-> g1 \in {"A", "B", "C"} /\ g2 \in {"A", "B"}]]

NovosDadosTeste ==
  { [NovosVazio EXCEPT !.campos = {"limiteConsanguinidade"},
                       !.limiteConsanguinidade = P25],
    [NovosVazio EXCEPT !.campos = {"geracoesConsanguinidade"},
                       !.geracoesConsanguinidade = 2],
    [campos |-> {"limiteConsanguinidade", "geracoesConsanguinidade", "matrizDisplasia"},
     limiteConsanguinidade |-> P50, geracoesConsanguinidade |-> 3,
     matrizDisplasia |-> MatrizAlternativa] }

\* the locals of a request: the operation, the document getParametros returned
\* (reg is its position in the collection), the inputs and the response
LocInicial ==
  [op |-> "nenhuma", pedidos |-> 0, reg |-> 0, doc |-> ParametrosPadrao,
   novos |-> NovosVazio, displasia1 |-> "A", displasia2 |-> "A",
   status |-> 0, compativel |-> FALSE,
   \* verificarCompatibilidade: the getParametros call in progress (fase), the
   \* inputs, the locals, and the documents the getParametros calls returned
   fase |-> "", petId1 |-> 0, petId2 |-> 0, caminho |-> "", valor |-> 0,
   geracoes |-> 0, limite |-> 0, matriz |-> MatrizPadrao,
   generoCompativel |-> FALSE, consanguinidadeCompativel |-> FALSE,
   displasiaCompativel |-> FALSE, lidos |-> <<>>,
   \* montarArvoreGenealogica: petId and the loop's arvore, fila and lookup count
   raiz |-> 0, st |-> [arvore |-> <<>>, fila |-> <<>>, buscas |-> 0],
   \* the generation of the entry whose lookup was rejected, -1 when none was
   falha |-> -1,
   \* atualizarParametros: the document as getParametros returned it
   antes |-> ParametrosPadrao]

LocVazio == [p \in Procs |-> LocInicial]

\* identifiers a request may carry: every stored one and one that is not stored
Consultaveis == (DOMAIN pets) \cup {IdAusente}

(***************************************************************************)
(* POST /api/parametros-pet/consanguinidade, served without interleaving.  *)
(* Each behaviour of the pedigree specifications serves one request from   *)
(* the store it starts with.                                               *)
(***************************************************************************)
CalcularConsanguinidade(petId1, petId2) ==
  LET r == calcularConsanguinidade(pets, parametros, petId1, petId2) IN
  /\ resposta.op = "nenhuma"
  /\ parametros' = r.params
  /\ resposta' =
       [RespostaVazia EXCEPT
          !.op = "consanguinidade", !.petId1 = petId1, !.petId2 = petId2,
          !.status = IF r.status = "ok" THEN 200 ELSE 500,
          !.caminho = r.caminho,
          !.valor = r.valor,
          !.coeficiente = IF r.status = "ok" THEN ToFixed2(r.valor) ELSE 0]
  /\ UNCHANGED <<pets, pc, loc>>

(***************************************************************************)
(* POST /api/parametros-pet/compatibilidade, served without interleaving.  *)
(***************************************************************************)
VerificarCompatibilidade(petId1, petId2) ==
  LET r == verificarCompatibilidade(pets, parametros, petId1, petId2) IN
  /\ resposta.op = "nenhuma"
  /\ parametros' = r.params
  /\ resposta' =
       IF r.status = "ok"
         THEN [op |-> "compatibilidade", petId1 |-> petId1, petId2 |-> petId2,
               status |-> 200, caminho |-> r.caminho, valor |-> r.valor,
               coeficiente |-> r.consanguinidade,
               generoCompativel |-> r.generoCompativel,
               consanguinidadeCompativel |-> r.consanguinidadeCompativel,
               displasiaCompativel |-> r.displasiaCompativel,
               compativel |-> r.compativel,
               displasia1 |-> pets[petId1].displasia,
               displasia2 |-> pets[petId2].displasia]
         ELSE [RespostaVazia EXCEPT
                 !.op = "compatibilidade", !.petId1 = petId1, !.petId2 = petId2,
                 !.status = 500, !.caminho = r.caminho]
  /\ UNCHANGED <<pets, pc, loc>>

Init ==
  /\ pets \in Pedigrees
  /\ parametros \in ParametrosIniciais
  /\ resposta = RespostaVazia
  /\ pc = ProcsOciosos
  /\ loc = LocVazio

Next ==
  \E petId1 \in Consultaveis, petId2 \in Consultaveis :
    CalcularConsanguinidade(petId1, petId2)

Spec == Init /\ [][Next]_vars

(***************************************************************************)
(* The same request sent again and again, nothing else touching the store. *)
(***************************************************************************)
\* how many times the request is repeated
MaxRepeticoes == 2

\* how many records DELETE /api/pets/:id deactivates
MaxDesativados == 2

PedigreesRepetir == Bases \cup Variantes(BaseBisavo)

RepetirConsanguinidade ==
  LET r == calcularConsanguinidade(pets, parametros, resposta.petId1, resposta.petId2) IN
  /\ resposta.op = "consanguinidade"
  /\ loc[1].pedidos < MaxRepeticoes
  /\ parametros' = r.params
  /\ resposta' =
       [RespostaVazia EXCEPT
          !.op = "consanguinidade",
          !.petId1 = resposta.petId1, !.petId2 = resposta.petId2,
          !.status = IF r.status = "ok" THEN 200 ELSE 500,
          !.caminho = r.caminho,
          !.valor = r.valor,
          !.coeficiente = IF r.status = "ok" THEN ToFixed2(r.valor) ELSE 0]
  /\ loc' = [loc EXCEPT ![1].pedidos = @ + 1]
  /\ UNCHANGED <<pets, pc>>

InitRepetir ==
  /\ pets \in PedigreesRepetir
  /\ parametros \in {<<>>, <<[ParametrosPadrao EXCEPT !.geracoesConsanguinidade = 2]>>}
  /\ resposta = RespostaVazia
  /\ pc = ProcsOciosos
  /\ loc = LocVazio

NextRepetir ==
  \/ \E petId1 \in Consultaveis, petId2 \in Consultaveis :
       CalcularConsanguinidade(petId1, petId2)
  \/ RepetirConsanguinidade

SpecRepetir == InitRepetir /\ [][NextRepetir]_vars

(***************************************************************************)
(* The compatibility specification: pedigrees around a sibling pair, the   *)
(* gender and grade of the record 2 and the stored limit drawn from small  *)
(* sets (the record 1 is a male of grade A).                               *)
(***************************************************************************)
\* 1 and 2 have the sire 3 and the unrelated dams 4 and 5
BaseFilhosDeS == PedigreeDe((1 :> 3) @@ (2 :> 3), (1 :> 4) @@ (2 :> 5))

\* 3 is the sire of 1 and the dam of 2
BaseCruzado == PedigreeDe((1 :> 3), (2 :> 3))

PedigreesCompat == Bases \cup {BaseCruzado} \cup Variantes(BaseFilhosDeS)

GrausTeste == {"A", "C"}

\* stored limits other than the default 12.5: 25 percent
LimitesTeste == {P25}

PetsCompat ==
  { [ped EXCEPT ![2].displasia = d2, ![2].genero = g2] :
      ped \in PedigreesCompat, d2 \in GrausTeste, g2 \in Generos }

\* a stored limit that a relatedness can equal without equalling its rounding:
\* 3.125, reported as 3.13
LimiteFino == P100 \div 32

PetsLimiteFino ==
  { [BaseBisavo EXCEPT ![2].displasia = d2, ![2].genero = g2] :
      d2 \in GrausTeste, g2 \in Generos }

InitVerificar ==
  /\ \/ /\ pets \in PetsCompat
        /\ parametros \in
             {<<>>} \cup { <<[ParametrosPadrao EXCEPT !.limiteConsanguinidade = l]>> :
                             l \in LimitesTeste }
     \/ /\ pets \in PetsLimiteFino
        /\ parametros = <<[ParametrosPadrao EXCEPT !.limiteConsanguinidade = LimiteFino]>>
  /\ resposta = RespostaVazia
  /\ pc = ProcsOciosos
  /\ loc = LocVazio

NextVerificar ==
  \E petId1 \in Consultaveis, petId2 \in Consultaveis :
    VerificarCompatibilidade(petId1, petId2)

SpecVerificar == InitVerificar /\ [][NextVerificar]_vars

(***************************************************************************)
(* POST /api/parametros-pet/displasia, served without interleaving.  The   *)
(* body carries any two non-empty strings; the stored matrix is whatever   *)
(* PUT /api/parametros-pet last assigned, rows and cells possibly missing. *)
(***************************************************************************)
\* a grade string outside the enum of Pet.displasia
GrauDesconhecido == "F"

GrausDoPedido == Graus \cup {GrauDesconhecido}

\* only the rows A and B, each without the cells D and E
MatrizParcial ==
  [g1 \in GrausNormais |-> [g2 \in {"A", "B", "C"} |-> g2 \in GrausNormais]]

\* a matrix assigned from an empty object: no row at all
MatrizSemLinhas == [g1 \in {} |-> g1]

\* stored matrices: the default, two assigned ones, an empty one, and the null of
\* a record written with matrizDisplasia: null
MatrizesTeste == {MatrizPadrao, MatrizAlternativa, MatrizParcial, MatrizSemLinhas, Nulo}

VerificarDisplasia(displasia1, displasia2) ==
  LET r == verificarCompatibilidadeDisplasia(parametros, displasia1, displasia2) IN
  /\ resposta.op = "nenhuma"
  /\ parametros' = r.params
  /\ resposta' = [RespostaVazia EXCEPT !.op = "displasia", !.status = 200,
                                       !.displasia1 = displasia1,
                                       !.displasia2 = displasia2,
                                       !.displasiaCompativel = r.valor,
                                       !.compativel = r.valor]
  /\ UNCHANGED <<pets, pc, loc>>

InitDisplasia ==
  /\ pets = BaseFilhosDeS
  /\ parametros \in
       {<<>>} \cup { <<[ParametrosPadrao EXCEPT !.matrizDisplasia = m]>> :
                       m \in MatrizesTeste }
  /\ resposta = RespostaVazia
  /\ pc = ProcsOciosos
  /\ loc = LocVazio

NextDisplasia ==
  \E displasia1 \in GrausDoPedido, displasia2 \in GrausDoPedido :
    VerificarDisplasia(displasia1, displasia2)

SpecDisplasia == InitDisplasia /\ [][NextDisplasia]_vars

(***************************************************************************)
(* montarArvoreGenealogica step by step: one iteration of its while loop   *)
(* per step (each holds at most one await, Pet.findById).  One call per    *)
(* behaviour, by the first process.                                        *)
(***************************************************************************)
\* the largest geracoes argument of the step-by-step calls
MaxGeracoesArvore == 3

IniciarMontarArvore(p, petId, geracoes) ==
  /\ p = 1
  /\ pc[p] = "ocioso"
  /\ loc[p].pedidos = 0
  /\ pc' = [pc EXCEPT ![p] = "laco"]
  /\ loc' = [loc EXCEPT ![p] = [LocInicial EXCEPT !.op = "montarArvore",
                                                 !.pedidos = 1,
                                                 !.raiz = petId,
                                                 !.geracoes = geracoes,
                                                 !.st = MontarInicio(petId)]]
  /\ UNCHANGED <<pets, parametros, resposta>>

\* while (fila.length > 0) { ... }
PassoMontarArvore(p) ==
  /\ pc[p] = "laco"
  /\ loc[p].st.fila # <<>>
  /\ loc' = [loc EXCEPT ![p].st = MontarPasso(pets, loc[p].st, loc[p].geracoes)]
  /\ UNCHANGED <<pets, parametros, resposta, pc>>

\* return arvore
RetornoMontarArvore(p) ==
  /\ pc[p] = "laco"
  /\ loc[p].st.fila = <<>>
  /\ pc' = [pc EXCEPT ![p] = "fim"]
  /\ loc' = [loc EXCEPT ![p].status = 200]
  /\ UNCHANGED <<pets, parametros, resposta>>

InitArvore ==
  /\ pets \in Pedigrees
  /\ parametros = <<>>
  /\ resposta = RespostaVazia
  /\ pc = ProcsOciosos
  /\ loc = LocVazio

NextArvore ==
  \E p \in Procs :
    \/ \E petId \in Consultaveis, geracoes \in 1 .. MaxGeracoesArvore :
         IniciarMontarArvore(p, petId, geracoes)
    \/ PassoMontarArvore(p)
    \/ RetornoMontarArvore(p)

SpecArvore == InitArvore /\ [][NextArvore]_vars

\* a call that awaits a lookup resumes when the lookup returns
SpecArvoreJusta ==
  SpecArvore /\ WF_vars(\E p \in Procs : PassoMontarArvore(p) \/ RetornoMontarArvore(p))

(***************************************************************************)
(* The same call when a lookup may be rejected (a timeout, a lost          *)
(* connection).  montarArvoreGenealogica has no try/catch around           *)
(* await Pet.findById(id): the rejection leaves the loop and the function, *)
(* and the catch blocks of its callers rethrow it.                         *)
(***************************************************************************)
FalharBusca(p) ==
  /\ pc[p] = "laco"
  /\ loc[p].st.fila # <<>>
  /\ LET item == Head(loc[p].st.fila) IN
       /\ ~AlemDoLimite(item.geracao, loc[p].geracoes)
       /\ ~ArvoreHas(loc[p].st.arvore, item.id)
       /\ loc' = [loc EXCEPT ![p].st.buscas = @ + 1,
                             ![p].falha = item.geracao,
                             ![p].status = 500]
  /\ pc' = [pc EXCEPT ![p] = "fim"]
  /\ UNCHANGED <<pets, parametros, resposta>>

NextArvoreFalha ==
  \E p \in Procs :
    \/ \E petId \in Consultaveis, geracoes \in 1 .. MaxGeracoesArvore :
         IniciarMontarArvore(p, petId, geracoes)
    \/ PassoMontarArvore(p)
    \/ FalharBusca(p)
    \/ RetornoMontarArvore(p)

SpecArvoreFalha == InitArvore /\ [][NextArvoreFalha]_vars

(***************************************************************************)
(* Concurrent requests on the policy collection.  A step is one database   *)
(* operation (findOne, create, save) together with the code that runs      *)
(* between it and the next await.                                          *)
(***************************************************************************)
\* assignments guarded by truthiness: a 0 or a null is taken as an omitted field
AplicarNovosDadosVerdadeiros(doc, novos) ==
  [doc EXCEPT
     !.matrizDisplasia =
        IF "matrizDisplasia" \in novos.campos /\ novos.matrizDisplasia # Nulo
          THEN novos.matrizDisplasia ELSE @,
     !.limiteConsanguinidade =
        IF "limiteConsanguinidade" \in novos.campos
             /\ novos.limiteConsanguinidade \notin {0, ValorNulo}
          THEN novos.limiteConsanguinidade ELSE @,
     !.geracoesConsanguinidade =
        IF "geracoesConsanguinidade" \in novos.campos
             /\ novos.geracoesConsanguinidade \notin {0, ValorNulo}
          THEN novos.geracoesConsanguinidade ELSE @]

\* atualizarParametros: the assignments to the fetched document
AplicarNovosDados(doc, novos) ==
  [doc EXCEPT
     !.matrizDisplasia =
        IF "matrizDisplasia" \in novos.campos /\ novos.matrizDisplasia # Nulo
          THEN novos.matrizDisplasia ELSE @,
     !.limiteConsanguinidade =
        IF "limiteConsanguinidade" \in novos.campos
          THEN novos.limiteConsanguinidade ELSE @,
     !.geracoesConsanguinidade =
        IF "geracoesConsanguinidade" \in novos.campos
          THEN novos.geracoesConsanguinidade ELSE @]

\* the schema's validators, run by save(): min and max pass a null
Valido(doc) ==
  /\ (doc.limiteConsanguinidade = ValorNulo
        \/ (doc.limiteConsanguinidade >= LimiteMin
              /\ doc.limiteConsanguinidade <= LimiteMax))
  /\ (doc.geracoesConsanguinidade = ValorNulo
        \/ (doc.geracoesConsanguinidade >= GeracoesMin
              /\ doc.geracoesConsanguinidade <= GeracoesMax))

\* save(): the paths of doc that differ from what was fetched are written
Gravar(params, reg, doc, lido) ==
  [params EXCEPT
     ![reg].matrizDisplasia =
        IF doc.matrizDisplasia # lido.matrizDisplasia THEN doc.matrizDisplasia ELSE @,
     ![reg].limiteConsanguinidade =
        IF doc.limiteConsanguinidade # lido.limiteConsanguinidade
          THEN doc.limiteConsanguinidade ELSE @,
     ![reg].geracoesConsanguinidade =
        IF doc.geracoesConsanguinidade # lido.geracoesConsanguinidade
          THEN doc.geracoesConsanguinidade ELSE @]

\* verificarCompatibilidade of p once one of its three getParametros calls has
\* returned doc: in calcularConsanguinidadeWright (fase "wright"), before the
\* limit test (fase "limite"), in verificarCompatibilidadeDisplasia ("displasia")
AposGetParametrosCompat(p, reg, doc) ==
  LET lidos == Append(loc[p].lidos, doc) IN
  IF loc[p].fase = "wright"
    THEN /\ pc' = [pc EXCEPT ![p] = "arvores"]
         /\ loc' = [loc EXCEPT ![p].reg = reg, ![p].doc = doc, ![p].lidos = lidos,
                               ![p].geracoes = GeracoesEfetivas(doc)]
  ELSE IF loc[p].fase = "limite"
    THEN /\ pc' = [pc EXCEPT ![p] = "findOne"]
         /\ loc' = [loc EXCEPT ![p].reg = reg, ![p].doc = doc, ![p].lidos = lidos,
                               ![p].fase = "displasia",
                               ![p].limite = doc.limiteConsanguinidade,
                               ![p].consanguinidadeCompativel =
                                  DentroDoLimite(loc[p].valor, doc.limiteConsanguinidade)]
  ELSE LET d == ConsultaMatriz(doc.matrizDisplasia, loc[p].displasia1, loc[p].displasia2)
       IN /\ pc' = [pc EXCEPT ![p] = "ocioso"]
          /\ loc' = [loc EXCEPT ![p].reg = reg, ![p].doc = doc, ![p].lidos = lidos,
                                ![p].fase = "",
                                ![p].matriz = doc.matrizDisplasia,
                                ![p].displasiaCompativel = d,
                                ![p].compativel =
                                   Conjuncao(loc[p].generoCompativel,
                                             loc[p].consanguinidadeCompativel, d),
                                ![p].status = 200]

\* the request of p once getParametros has returned doc, stored at reg
AposGetParametros(p, reg, doc) ==
  IF loc[p].op = "atualizarParametros"
    THEN /\ pc' = [pc EXCEPT ![p] = "save"]
         /\ loc' = [loc EXCEPT ![p].reg = reg, ![p].doc = doc]
  ELSE IF loc[p].op = "verificarDisplasia"
    THEN /\ pc' = [pc EXCEPT ![p] = "ocioso"]
         /\ loc' = [loc EXCEPT ![p].reg = reg, ![p].doc = doc, ![p].status = 200,
                               ![p].compativel =
                                  ConsultaMatriz(doc.matrizDisplasia,
                                                 loc[p].displasia1, loc[p].displasia2)]
  ELSE IF loc[p].op = "verificarCompatibilidade"
    THEN AposGetParametrosCompat(p, reg, doc)
  ELSE /\ pc' = [pc EXCEPT ![p] = "ocioso"]
       /\ loc' = [loc EXCEPT ![p].reg = reg, ![p].doc = doc, ![p].status = 200]

\* GET /api/parametros-pet
IniciarGetParametros(p) ==
  /\ pc[p] = "ocioso"
  /\ loc[p].pedidos < MaxPedidos
  /\ pc' = [pc EXCEPT ![p] = "findOne"]
  /\ loc' = [loc EXCEPT ![p] = [LocInicial EXCEPT !.op = "getParametros",
                                                 !.pedidos = loc[p].pedidos + 1]]
  /\ UNCHANGED <<pets, parametros, resposta>>

\* POST /api/parametros-pet/displasia
IniciarVerificarDisplasia(p, displasia1, displasia2) ==
  /\ pc[p] = "ocioso"
  /\ loc[p].pedidos < MaxPedidos
  /\ pc' = [pc EXCEPT ![p] = "findOne"]
  /\ loc' = [loc EXCEPT ![p] = [LocInicial EXCEPT !.op = "verificarDisplasia",
                                                 !.pedidos = loc[p].pedidos + 1,
                                                 !.displasia1 = displasia1,
                                                 !.displasia2 = displasia2]]
  /\ UNCHANGED <<pets, parametros, resposta>>

\* PUT /api/parametros-pet
IniciarAtualizarParametros(p, novos) ==
  /\ pc[p] = "ocioso"
  /\ loc[p].pedidos < MaxPedidos
  /\ novos.campos # {}
  /\ pc' = [pc EXCEPT ![p] = "findOne"]
  /\ loc' = [loc EXCEPT ![p] = [LocInicial EXCEPT !.op = "atualizarParametros",
                                                 !.pedidos = loc[p].pedidos + 1,
                                                 !.novos = novos]]
  /\ UNCHANGED <<pets, parametros, resposta>>

\* getParametros: ParametrosPet.findOne({ativo: true}) answers
FindOne(p) ==
  /\ pc[p] = "findOne"
  /\ LET i == FindOneAtivo(parametros) IN
       IF i = 0
         THEN /\ pc' = [pc EXCEPT ![p] = "create"]
              /\ loc' = loc
         ELSE AposGetParametros(p, i, parametros[i])
  /\ UNCHANGED <<pets, parametros, resposta>>

\* getParametros: ParametrosPet.create({ativo: true}) inserts
Create(p) ==
  /\ pc[p] = "create"
  /\ parametros' = Append(parametros, ParametrosPadrao)
  /\ AposGetParametros(p, Len(parametros) + 1, ParametrosPadrao)
  /\ UNCHANGED <<pets, resposta>>

\* atualizarParametros: parametros.save() validates and writes
Save(p) ==
  /\ pc[p] = "save"
  /\ LET doc == AplicarNovosDados(loc[p].doc, loc[p].novos) IN
       IF Valido(doc)
         THEN /\ parametros' = Gravar(parametros, loc[p].reg, doc, loc[p].doc)
              /\ loc' = [loc EXCEPT ![p].doc = doc, ![p].status = 200,
                                    ![p].antes = loc[p].doc]
         ELSE /\ parametros' = parametros
              /\ loc' = [loc EXCEPT ![p].status = 500]
  /\ pc' = [pc EXCEPT ![p] = "ocioso"]
  /\ UNCHANGED <<pets, resposta>>

\* POST /api/parametros-pet/compatibilidade
IniciarVerificarCompatibilidade(p, petId1, petId2) ==
  /\ pc[p] = "ocioso"
  /\ loc[p].pedidos < MaxPedidos
  /\ pc' = [pc EXCEPT ![p] = "pets"]
  /\ loc' = [loc EXCEPT ![p] = [LocInicial EXCEPT !.op = "verificarCompatibilidade",
                                                 !.pedidos = loc[p].pedidos + 1,
                                                 !.petId1 = petId1,
                                                 !.petId2 = petId2]]
  /\ UNCHANGED <<pets, parametros, resposta>>

\* verificarCompatibilidade: the two Pet.findById answer; then the gender test
\* and calcularConsanguinidade up to its return or to the getParametros call of
\* calcularConsanguinidadeWright (only Pet lookups in between)
BuscarPets(p) ==
  /\ pc[p] = "pets"
  /\ LET pet1 == PetFindById(pets, loc[p].petId1)
         pet2 == PetFindById(pets, loc[p].petId2)
         pa1 == getPetComAncestral(pets, loc[p].petId1)
         pa2 == getPetComAncestral(pets, loc[p].petId2)
     IN
     IF pet1 = Nulo \/ pet2 = Nulo
       THEN /\ pc' = [pc EXCEPT ![p] = "ocioso"]
            /\ loc' = [loc EXCEPT ![p].status = 500, ![p].caminho = "naoEncontrado"]
       ELSE
         LET com == [loc[p] EXCEPT !.displasia1 = pet1.displasia,
                                   !.displasia2 = pet2.displasia,
                                   !.generoCompativel = pet1.genero # pet2.genero,
                                   !.fase = "limite"]
         IN
         /\ pc' = [pc EXCEPT ![p] = "findOne"]
         /\ loc' = [loc EXCEPT ![p] =
               IF MesmoPet(pa1, pa2)
                 THEN [com EXCEPT !.valor = P100, !.caminho = "mesmo"]
               ELSE IF EhPaiOuFilho(pa1, pa2)
                 THEN [com EXCEPT !.valor = P50, !.caminho = "paiFilho"]
               ELSE IF IrmaosCompletos(pa1, pa2)
                 THEN [com EXCEPT !.valor = P50, !.caminho = "irmaos"]
               ELSE IF MeioIrmaos(pa1, pa2)
                 THEN [com EXCEPT !.valor = P25, !.caminho = "meioIrmaos"]
               ELSE [com EXCEPT !.fase = "wright", !.caminho = "wright"]]
  /\ UNCHANGED <<pets, parametros, resposta>>

\* calcularConsanguinidadeWright after its getParametros: both trees, the sum;
\* then verificarCompatibilidade calls getParametros for the limit
MontarArvores(p) ==
  /\ pc[p] = "arvores"
  /\ pc' = [pc EXCEPT ![p] = "findOne"]
  /\ loc' = [loc EXCEPT ![p].valor = WrightValor(pets, loc[p].petId1, loc[p].petId2,
                                                 loc[p].geracoes),
                        ![p].fase = "limite"]
  /\ UNCHANGED <<pets, parametros, resposta>>

InitConcorrente ==
  /\ pets = BaseFilhosDeS
  /\ parametros = <<>>
  /\ resposta = RespostaVazia
  /\ pc = ProcsOciosos
  /\ loc = LocVazio

NextConcorrente ==
  \E p \in Procs :
    \/ IniciarGetParametros(p)
    \/ \E d1 \in GrausTeste, d2 \in GrausTeste : IniciarVerificarDisplasia(p, d1, d2)
    \/ \E novos \in NovosDadosTeste : IniciarAtualizarParametros(p, novos)
    \/ FindOne(p)
    \/ Create(p)
    \/ Save(p)

SpecConcorrente == InitConcorrente /\ [][NextConcorrente]_vars

(***************************************************************************)
(* Compatibility requests running concurrently with policy updates.        *)
(***************************************************************************)
\* the pairs the concurrent compatibility requests ask about: second cousins
\* (the Wright sum), half siblings (a shortcut), and a pair with an unknown id
ParesConcorrentes == {<<1, 2>>, <<1, IdAusente>>}

PedigreesConcorrentes == {BaseBisavo, BaseFilhosDeS}

InitCompatConcorrente ==
  /\ pets \in PedigreesConcorrentes
  /\ parametros \in {<<>>, <<ParametrosPadrao>>}
  /\ resposta = RespostaVazia
  /\ pc = ProcsOciosos
  /\ loc = LocVazio

NextCompatConcorrente ==
  \E p \in Procs :
    \/ \E par \in ParesConcorrentes : IniciarVerificarCompatibilidade(p, par[1], par[2])
    \/ \E novos \in NovosDadosTeste : IniciarAtualizarParametros(p, novos)
    \/ BuscarPets(p)
    \/ MontarArvores(p)
    \/ FindOne(p)
    \/ Create(p)
    \/ Save(p)

SpecCompatConcorrente == InitCompatConcorrente /\ [][NextCompatConcorrente]_vars

(***************************************************************************)
(* Pedigree relations, read off the stored records.                        *)
(***************************************************************************)
Existe(id) == id \in DOMAIN pets

\* the recorded sire and dam references of a stored animal
Genitores(id) == {pets[id].pai, pets[id].mae} \ {SemRef}

EhGenitorDe(g, f) == Existe(f) /\ g \in Genitores(f)

\* the stored animals that the animals of S name as sire or dam
GenitoresDe(S) == (UNION { Genitores(x) : x \in S }) \cap DOMAIN pets

\* the stored animals within k parent-hops of a, through stored records
RECURSIVE Alcance(_, _)
Alcance(a, k) ==
  IF k = 0 THEN {a} \cap DOMAIN pets
  ELSE LET antes == Alcance(a, k - 1) IN antes \cup GenitoresDe(antes)

RECURSIVE Fecho(_)
Fecho(S) ==
  LET mais == S \cup GenitoresDe(S) IN IF mais = S THEN S ELSE Fecho(mais)

\* a and all its stored ancestors
Ancestrais(a) == Fecho({a} \cap DOMAIN pets)

\* length of the shortest chain of references from the layer camada, itself k
\* hops away, to c; NumPets + 1 when there is none
RECURSIVE DistanciaDesde(_, _, _, _)
DistanciaDesde(camada, vistos, c, k) ==
  IF c \in camada THEN k
  ELSE IF camada = {} THEN NumPets + 1
  ELSE DistanciaDesde(GenitoresDe(camada) \ (vistos \cup camada),
                      vistos \cup camada, c, k + 1)

\* length of the shortest chain of references from a to c
Distancia(a, c) == DistanciaDesde({a} \cap DOMAIN pets, {}, c, 0)

\* the maximum generations of the active policy (5 when none is stored or set)
GeracoesAtivas ==
  LET i == FindOneAtivo(parametros)
  IN IF i = 0 THEN GeracoesPadrao ELSE GeracoesEfetivas(parametros[i])

RECURSIVE SomaSobre(_, _, _)
SomaSobre(S, a, b) ==
  IF S = {} THEN 0
  ELSE LET c == CHOOSE x \in S : TRUE
       IN Escala \div (2 ^ (Distancia(a, c) + Distancia(b, c))) + SomaSobre(S \ {c}, a, b)

Consultou == resposta.op = "consanguinidade"
A == resposta.petId1
B == resposta.petId2
Resolvidos == Existe(A) /\ Existe(B)

MesmoPaiRegistrado(a, b) == pets[a].pai # SemRef /\ pets[a].pai = pets[b].pai
MesmaMaeRegistrada(a, b) == pets[a].mae # SemRef /\ pets[a].mae = pets[b].mae
PaiOuFilho(a, b) == EhGenitorDe(a, b) \/ EhGenitorDe(b, a)

(***************************************************************************)
(* Claims                                                                  *)
(***************************************************************************)

\* C1: for every pair of distinct animals where one is the recorded sire or dam
\* of the other, calcularConsanguinidade returns exactly 50, whatever further
\* ancestors are on record and whatever maxGenerations is configured.
C1_PaiFilhoCinquenta ==
  (Consultou /\ Resolvidos /\ A # B /\ PaiOuFilho(A, B))
    => (resposta.status = 200 /\ resposta.valor = P50)

\* C4: for every pair of resolvable animals, every pedigree graph (cyclic ones
\* included) and every maxGenerations, the value returned lies in [0, 100].
C4_ValorEntreZeroECem ==
  (Consultou /\ Resolvidos)
    => (resposta.status = 200 /\ resposta.valor >= 0 /\ resposta.valor <= P100)

\* C5: for every resolvable animal X, calcularConsanguinidade(X, X) returns 100,
\* whatever parents X has on record (X itself included).
C5_MesmoAnimalCem ==
  (Consultou /\ Resolvidos /\ A = B)
    => (resposta.status = 200 /\ resposta.valor = P100)

C5_Witness ==
  /\ Consultou /\ Resolvidos /\ A = B
  /\ pets[A].pai = A
  /\ resposta.valor = P100

\* C6: two distinct animals with the identical sire and the identical dam,
\* neither the other's parent, get exactly 50.
C6_IrmaosCompletosCinquenta ==
  (Consultou /\ Resolvidos /\ A # B /\ ~PaiOuFilho(A, B)
     /\ MesmoPaiRegistrado(A, B) /\ MesmaMaeRegistrada(A, B))
    => (resposta.status = 200 /\ resposta.valor = P50)

\* C7: two distinct animals that share exactly one parent (the same sire and
\* different or absent dams, or the same dam and different or absent sires),
\* neither the other's parent, get exactly 25, whatever else they share.
C7_MeioIrmaosVinteCinco ==
  (Consultou /\ Resolvidos /\ A # B /\ ~PaiOuFilho(A, B)
     /\ ((MesmoPaiRegistrado(A, B) /\ ~MesmaMaeRegistrada(A, B))
           \/ (MesmaMaeRegistrada(A, B) /\ ~MesmoPaiRegistrado(A, B))))
    => (resposta.status = 200 /\ resposta.valor = P25)

\* C8: relatedness is symmetric: calcularConsanguinidade(A, B) equals
\* calcularConsanguinidade(B, A) over every pedigree graph and policy.
C8_Simetria ==
  Consultou =>
    LET volta == calcularConsanguinidade(pets, parametros, B, A)
    IN (resposta.status = 200) = (volta.status = "ok")
         /\ resposta.valor = volta.valor

C8_Witness ==
  /\ Consultou /\ Resolvidos /\ A # B
  /\ resposta.caminho = "wright"
  /\ \E c \in Ancestrais(A) \cap Ancestrais(B) : Distancia(A, c) # Distancia(B, c)
  /\ resposta.valor > 0

\* none of the four shortcuts applies to the recorded references of a and b
SemAtalho(a, b) ==
  /\ a # b
  /\ ~PaiOuFilho(a, b)
  /\ ~MesmoPaiRegistrado(a, b)
  /\ ~MesmaMaeRegistrada(a, b)

\* a and b share only g, three generations from each, and g has no recorded parents
CenarioBisavo(a, b, g) ==
  /\ a # b
  /\ Existe(g) /\ Genitores(g) = {}
  /\ Distancia(a, g) = 3
  /\ Distancia(b, g) = 3
  /\ Ancestrais(a) \cap Ancestrais(b) = {g}

\* C9 as stated: the second sentence of the claim, for every configured
\* maxGenerations: sharing only G at generation 3 on each side gives 1.5625.
C9_BisavoQualquerLimite ==
  (Consultou /\ Resolvidos /\ \E g \in PetIds : CenarioBisavo(A, B, g))
    => resposta.valor = P100 \div 64

\* C9 (amended): when no shortcut applies the result is 100 times the sum, over
\* the identifiers within maxGenerations of both animals, of 0.5^(n1+n2), one
\* term per common ancestor at its shortest distances; and sharing only G at
\* generation 3 on each side gives 1.5625 when maxGenerations is at least 3.
C9_SomaDeWright ==
  (Consultou /\ Resolvidos) =>
    /\ SemAtalho(A, B) =>
         /\ resposta.status = 200
         /\ resposta.valor =
              SomaSobre(Alcance(A, GeracoesAtivas) \cap Alcance(B, GeracoesAtivas), A, B)
    /\ ((\E g \in PetIds : CenarioBisavo(A, B, g)) /\ GeracoesAtivas >= 3)
         => (resposta.valor = P100 \div 64 /\ resposta.coeficiente = 156)

C9_Witness ==
  /\ Consultou /\ Resolvidos
  /\ \E g \in PetIds : CenarioBisavo(A, B, g)
  /\ GeracoesAtivas >= 3
  /\ resposta.caminho = "wright"
  /\ resposta.valor = P100 \div 64

\* C10: an ancestor whose shortest distance from one of the two animals exceeds
\* maxGenerations never contributes: when the only common ancestor lies at
\* generation maxGenerations+1 from A (at any distance from B), the result is 0.
C10_AlemDoHorizonte ==
  (Consultou /\ Resolvidos /\ A # B
     /\ \E g \in PetIds :
          /\ Distancia(A, g) = GeracoesAtivas + 1
          /\ Ancestrais(A) \cap Ancestrais(B) = {g})
    => (resposta.status = 200 /\ resposta.valor = 0)

C10_Witness ==
  /\ Consultou /\ Resolvidos /\ A # B
  /\ \E g \in PetIds :
       /\ Distancia(A, g) = GeracoesAtivas + 1
       /\ Distancia(B, g) <= GeracoesAtivas
       /\ Ancestrais(A) \cap Ancestrais(B) = {g}
  /\ resposta.caminho = "wright"
  /\ resposta.valor = 0

Verificou == resposta.op = "compatibilidade"

\* the inbreeding limit of the active policy
LimiteAtivo ==
  LET i == FindOneAtivo(parametros)
  IN IF i = 0 THEN LimitePadrao ELSE parametros[i].limiteConsanguinidade

\* s is a stored animal without recorded parents, x (male) and y (female) are
\* two of its children and share no other ancestry; the limit is 12.5
CenarioFilhosDeS(x, y, s) ==
  /\ x # y /\ s # x /\ s # y
  /\ Existe(s) /\ Genitores(s) = {}
  /\ EhGenitorDe(s, x) /\ EhGenitorDe(s, y)
  /\ pets[x].genero = "macho" /\ pets[y].genero = "femea"
  /\ LimiteAtivo = LimitePadrao
  /\ Ancestrais(x) \cap Ancestrais(y) = {s}

\* s is recorded as both the sire and the dam of x and of y
AmbosOsPapeis(x, y, s) ==
  pets[x].pai = s /\ pets[x].mae = s /\ pets[y].pai = s /\ pets[y].mae = s

\* C3 as stated: S has two children X (male) and Y (female) with no other
\* shared ancestry and the limit is 12.5; verificarCompatibilidade(X, Y) yields
\* genderCompatible, relatedness = 50, not relatednessCompatible, not compatible.
C3_FilhosDeSCinquenta ==
  (Verificou /\ Resolvidos /\ \E s \in PetIds : CenarioFilhosDeS(A, B, s))
    => /\ resposta.status = 200
       /\ resposta.generoCompativel
       /\ resposta.valor = P50
       /\ ~resposta.consanguinidadeCompativel
       /\ ~resposta.compativel

\* C3 (amended): in that scenario, S being one parent (not both sire and dam) of
\* each child, the relatedness is 25 (X and Y are half siblings), which is above
\* 12.5: genderCompatible, not relatednessCompatible, not compatible.
C3_FilhosDeSVinteCinco ==
  (Verificou /\ Resolvidos
     /\ \E s \in PetIds : CenarioFilhosDeS(A, B, s) /\ ~AmbosOsPapeis(A, B, s))
    => /\ resposta.status = 200
       /\ resposta.generoCompativel
       /\ resposta.valor = P25
       /\ resposta.coeficiente = 2500
       /\ ~resposta.consanguinidadeCompativel
       /\ ~resposta.compativel

C3_Witness ==
  /\ Verificou /\ Resolvidos
  /\ \E s \in PetIds : CenarioFilhosDeS(A, B, s) /\ ~AmbosOsPapeis(A, B, s)
  /\ pets[A].displasia = "A" /\ pets[B].displasia = "A"
  /\ resposta.displasiaCompativel
  /\ resposta.valor = P25
  /\ ~resposta.compativel

\* the active records of the policy collection
Ativos == { i \in 1 .. Len(parametros) : parametros[i].ativo }

\* C2: from a store with no active policy, after any interleaving of concurrent
\* operations that read the active policy the store holds at most one active
\* policy record: two requests that both saw none never both create one.
C2_NoMaximoUmaPoliticaAtiva == Cardinality(Ativos) <= 1

\* the identifiers with a record within maxGenerations parent-hops of a, a included
MapaDe(a) == Alcance(a, GeracoesAtivas)

\* C11: two distinct animals whose ancestry maps built to maxGenerations (each
\* with its own root) have no identifier in common get exactly 0.
C11_SemComumZero ==
  (Consultou /\ Resolvidos /\ A # B /\ MapaDe(A) \cap MapaDe(B) = {})
    => (resposta.status = 200 /\ resposta.valor = 0)

C11_Witness ==
  /\ Consultou /\ Resolvidos /\ A # B
  /\ MapaDe(A) \cap MapaDe(B) = {}
  /\ Cardinality(MapaDe(A)) >= 2 /\ Cardinality(MapaDe(B)) >= 2
  /\ resposta.caminho = "wright"
  /\ resposta.valor = 0

\* a and b name the same sire or the same dam, not both
MeioIrmaosRegistrados(a, b) ==
  /\ a # b
  /\ MesmoPaiRegistrado(a, b) # MesmaMaeRegistrada(a, b)

\* C12: in every result of verificarCompatibilidade, compativel is true exactly
\* when generoCompativel, consanguinidadeCompativel and displasiaCompativel all
\* are; with the limit 12.5 a half-sibling pair of relatedness 25 is neither
\* consanguinidadeCompativel nor compativel, whatever the genders and grades.
C12_ConjuncaoDosTres ==
  (Verificou /\ Resolvidos) =>
    /\ resposta.status = 200
    /\ resposta.compativel =
         (resposta.generoCompativel /\ resposta.consanguinidadeCompativel
            /\ resposta.displasiaCompativel)
    /\ (LimiteAtivo = LimitePadrao /\ MeioIrmaosRegistrados(A, B)
          /\ resposta.valor = P25)
         => (~resposta.consanguinidadeCompativel /\ ~resposta.compativel)

C12_Witness ==
  /\ Verificou /\ Resolvidos
  /\ LimiteAtivo = LimitePadrao
  /\ MeioIrmaosRegistrados(A, B)
  /\ pets[A].genero # pets[B].genero
  /\ resposta.coeficiente = 2500
  /\ resposta.generoCompativel /\ resposta.displasiaCompativel
  /\ ~resposta.consanguinidadeCompativel /\ ~resposta.compativel

\* the response of a request that threw before producing any field
RespostaDeErro(op, petId1, petId2) ==
  [RespostaVazia EXCEPT !.op = op, !.petId1 = petId1, !.petId2 = petId2,
                        !.status = 500, !.caminho = "naoEncontrado"]

\* C13: when either identifier has no record, calcularConsanguinidade and
\* verificarCompatibilidade fail with the not-found error and produce no field
\* of a result; no later step runs: the policy collection is left as it was
\* (no default is created) and no relatedness or dysplasia value is computed.
C13_NaoEncontrado ==
  [][(resposta'.op = "consanguinidade"
        /\ ~(resposta'.petId1 \in DOMAIN pets /\ resposta'.petId2 \in DOMAIN pets))
       => /\ resposta' = RespostaDeErro("consanguinidade",
                                        resposta'.petId1, resposta'.petId2)
          /\ parametros' = parametros
          /\ LET v == verificarCompatibilidade(pets, parametros,
                                               resposta'.petId1, resposta'.petId2)
             IN /\ v.status = "erro" /\ v.caminho = "naoEncontrado"
                /\ v.params = parametros
                /\ ~v.generoCompativel /\ ~v.displasiaCompativel /\ v.valor = 0]_vars

C13_Witness ==
  /\ Consultou
  /\ Existe(A) /\ ~Existe(B)
  /\ Genitores(A) # {}
  /\ parametros = <<>>
  /\ resposta.status = 500

\* the compatibility requests that have returned a result
Concluidos ==
  { p \in Procs : loc[p].op = "verificarCompatibilidade" /\ pc[p] = "ocioso"
                    /\ loc[p].status = 200 }

\* the maximum generations (when trees were built), the limit and the matrix
\* that the computation of p used are those of one policy state it was given
DeUmaSoLeitura(p) ==
  \E k \in 1 .. Len(loc[p].lidos) :
    LET lido == loc[p].lidos[k] IN
    /\ loc[p].caminho = "wright" => GeracoesEfetivas(lido) = loc[p].geracoes
    /\ lido.limiteConsanguinidade = loc[p].limite
    /\ lido.matrizDisplasia = loc[p].matriz

VerificouDisplasia == resposta.op = "displasia"

\* the matrix of the active policy
MatrizAtiva ==
  LET i == FindOneAtivo(parametros)
  IN IF i = 0 THEN MatrizPadrao ELSE parametros[i].matrizDisplasia

SemMatriz == MatrizAtiva = Nulo
SemLinha(d1) == ~SemMatriz /\ d1 \notin DOMAIN MatrizAtiva
SemCelula(d1, d2) ==
  ~SemMatriz /\ d1 \in DOMAIN MatrizAtiva /\ d2 \notin DOMAIN MatrizAtiva[d1]

\* C15: verificarCompatibilidadeDisplasia returns false whenever the active
\* policy has no matrix, no row for the first grade, or no cell for the second
\* grade in that row: never true for a pair without a stored cell.
C15_SemCelulaFalso ==
  VerificouDisplasia =>
    /\ resposta.status = 200
    /\ (SemMatriz \/ SemLinha(resposta.displasia1)
          \/ SemCelula(resposta.displasia1, resposta.displasia2))
         => ~resposta.displasiaCompativel

C15_Witness ==
  /\ VerificouDisplasia
  /\ SemCelula(resposta.displasia1, resposta.displasia2)
  /\ \E g \in DOMAIN MatrizAtiva[resposta.displasia1] :
       MatrizAtiva[resposta.displasia1][g]
  /\ ~resposta.displasiaCompativel

\* the active policy is the record the schema's defaults give
PoliticaPadrao ==
  LET i == FindOneAtivo(parametros)
  IN i # 0 /\ parametros[i] = ParametrosPadrao

\* C16: with the default policy, for every pair of grades in {A,B,C,D,E} the
\* result is true exactly when both grades are in {A, B}: (A,A) true, (A,C)
\* false, (C,C) false; and the default result is symmetric in its arguments.
C16_PadraoSoAeB ==
  (VerificouDisplasia /\ PoliticaPadrao
     /\ resposta.displasia1 \in {"A", "B", "C", "D", "E"}
     /\ resposta.displasia2 \in {"A", "B", "C", "D", "E"})
    => /\ resposta.displasiaCompativel =
            (resposta.displasia1 \in {"A", "B"} /\ resposta.displasia2 \in {"A", "B"})
       /\ resposta.displasiaCompativel =
            verificarCompatibilidadeDisplasia(parametros, resposta.displasia2,
                                              resposta.displasia1).valor

C16_Witness ==
  /\ VerificouDisplasia /\ PoliticaPadrao
  /\ resposta.displasia1 = "C" /\ resposta.displasia2 = "C"
  /\ ~resposta.displasiaCompativel

\* C17: consanguinidadeCompativel is true exactly when the unrounded
\* relatedness is at most the active policy's limit (equality is compatible);
\* the rounding to two decimals only shapes the reported field.
C17_LimiteSemArredondar ==
  (Verificou /\ Resolvidos) =>
    /\ resposta.consanguinidadeCompativel = (resposta.valor <= LimiteAtivo)
    /\ resposta.coeficiente = ToFixed2(resposta.valor)

C17_Witness ==
  /\ Verificou /\ Resolvidos
  /\ resposta.valor = LimiteAtivo
  /\ resposta.valor = P100 \div 32
  /\ resposta.coeficiente = 313
  /\ resposta.consanguinidadeCompativel

\* C18: montarArvoreGenealogica terminates for every pedigree graph, also when
\* an animal names itself as parent or the references form a cycle, provided
\* every lookup returns: a call that has started reaches its return.
C18_MontarTermina == (pc[1] = "laco") ~> (pc[1] = "fim")

\* a returned call on a cyclic pedigree that reached the cycle
C18_Witness ==
  /\ pc[1] = "fim"
  /\ \E x \in DOMAIN pets :
       /\ ArvoreHas(loc[1].st.arvore, x)
       /\ x \in GenitoresDe(Ancestrais(x))
       /\ ArvoreGet(loc[1].st.arvore, x).geracao < loc[1].geracoes

\* the identifiers, with or without a record, within k parent-hops of raiz
RECURSIVE IdsAlcancaveis(_, _)
IdsAlcancaveis(raiz, k) ==
  IF k = 0 THEN {raiz}
  ELSE LET antes == IdsAlcancaveis(raiz, k - 1)
       IN antes \cup UNION { Genitores(x) : x \in antes \cap DOMAIN pets }

Montando == pc[1] \in {"laco", "fim"}

\* C19: during one montarArvoreGenealogica(root, maxGenerations) run the number
\* of Pet.findById calls is at most the number of distinct identifiers
\* reachable from the root within maxGenerations parent-hops, for every
\* pedigree graph, also when a referenced record does not exist.
C19_BuscasLimitadas ==
  Montando =>
    loc[1].st.buscas <= Cardinality(IdsAlcancaveis(loc[1].raiz, loc[1].geracoes))

\* the identifiers recorded in the map of the call
Chaves == { loc[1].st.arvore[k].id : k \in 1 .. Len(loc[1].st.arvore) }

\* the identifiers without a record that a recorded animal names
SemRegistroEncontrados ==
  { r \in UNION { Genitores(x) : x \in Chaves } : r \notin DOMAIN pets }

\* C20: an ancestor identifier without a record does not make
\* montarArvoreGenealogica fail: the call returns, that identifier is not in
\* the map, nothing is explored through it, and every other branch is explored
\* and recorded: the map holds exactly the animals with a record within
\* maxGenerations hops of the root through recorded animals, each at its
\* shortest distance.
C20_PodaSilenciosa ==
  (pc[1] = "fim") =>
    /\ loc[1].status = 200
    /\ Chaves = Alcance(loc[1].raiz, loc[1].geracoes)
    /\ Len(loc[1].st.arvore) = Cardinality(Chaves)
    /\ \A x \in Chaves :
         ArvoreGet(loc[1].st.arvore, x).geracao = Distancia(loc[1].raiz, x)

C20_Witness ==
  /\ pc[1] = "fim"
  /\ \E x \in Chaves :
       /\ ArvoreGet(loc[1].st.arvore, x).geracao < loc[1].geracoes
       /\ pets[x].pai \in SemRegistroEncontrados
       /\ pets[x].mae \in Chaves
       /\ Genitores(pets[x].mae) \cap Chaves # {}
  /\ loc[1].st.buscas > Len(loc[1].st.arvore)

\* C21: a lookup that times out or fails while an ancestor (a node other than
\* the root) is expanded is treated like a missing ancestor: the branch is
\* pruned and the call still completes with its map; only a failure on the
\* root makes it fail.
C21_FalhaPodada ==
  (pc[1] = "fim") =>
    /\ loc[1].falha >= 1 => loc[1].status = 200
    /\ loc[1].status = 500 => loc[1].falha = 0

\* the values the computation of p used are those of the policy state d
UsouEstado(p, d) ==
  /\ loc[p].caminho = "wright" => GeracoesEfetivas(d) = loc[p].geracoes
  /\ d.limiteConsanguinidade = loc[p].limite
  /\ d.matrizDisplasia = loc[p].matriz

\* p ran one computation and q one update of several fields, and nothing else ran
UmLeitorUmaAtualizacao(p, q) ==
  /\ p \in Concluidos /\ q # p
  /\ loc[p].pedidos = 1 /\ loc[q].pedidos = 1
  /\ \A r \in Procs \ {p, q} : loc[r].pedidos = 0
  /\ loc[q].op = "atualizarParametros" /\ pc[q] = "ocioso" /\ loc[q].status = 200
  /\ Cardinality(loc[q].novos.campos) >= 2

\* C22: a policy update is atomic to concurrent readers: a computation running
\* concurrently with an atualizarParametros that changes several fields
\* observes either all the old field values or all the new ones, never a mix.
C22_TudoOuNada ==
  \A p \in Procs, q \in Procs :
    UmLeitorUmaAtualizacao(p, q)
      => (UsouEstado(p, loc[q].antes) \/ UsouEstado(p, loc[q].doc))

\* C23: calcularConsanguinidade(A, B) repeated with no change to the animal
\* records or to the policy in between returns the same value each time, also
\* when the first call is the one that creates the default policy (which the
\* repetitions then find and leave as it is).
C23_MesmoValor ==
  [][(resposta.op = "consanguinidade" /\ resposta'.op = "consanguinidade")
       => /\ resposta'.status = resposta.status
          /\ resposta'.valor = resposta.valor
          /\ resposta'.coeficiente = resposta.coeficiente
          /\ parametros' = parametros]_vars

C23_Witness ==
  /\ Consultou /\ Resolvidos
  /\ loc[1].pedidos = MaxRepeticoes
  /\ parametros = <<ParametrosPadrao>>
  /\ resposta.caminho = "wright"
  /\ resposta.valor = P100 \div 64

\* C24: for every identifier in the map of montarArvoreGenealogica(root,
\* maxGenerations) the recorded generation is the length of the shortest chain
\* of sire/dam references from the root to it through records that exist; an
\* ancestor reachable by several paths is recorded once, at that minimum.
C24_GeracaoMinima ==
  Montando =>
    LET arvore == loc[1].st.arvore IN
    /\ \A k \in 1 .. Len(arvore) :
         arvore[k].geracao = Distancia(loc[1].raiz, arvore[k].id)
    /\ \A k \in 1 .. Len(arvore), j \in 1 .. Len(arvore) :
         arvore[k].id = arvore[j].id => k = j

\* a returned map with an ancestor named by two recorded animals of different
\* generations
C24_Witness ==
  /\ pc[1] = "fim"
  /\ \E x \in Chaves, y \in Chaves, z \in Chaves :
       /\ x \in Genitores(y) /\ x \in Genitores(z)
       /\ Distancia(loc[1].raiz, y) < Distancia(loc[1].raiz, z)
       /\ Distancia(loc[1].raiz, z) < loc[1].geracoes
       /\ ArvoreGet(loc[1].st.arvore, x).geracao = Distancia(loc[1].raiz, y) + 1

\* the generations of the queue never decrease from head to tail
FilaOrdenada(fila) ==
  \A k \in 1 .. Len(fila), j \in 1 .. Len(fila) :
    k < j => fila[k].geracao <= fila[j].geracao

\* arvore1 is a prefix of arvore2
Prefixo(arvore1, arvore2) ==
  /\ Len(arvore1) <= Len(arvore2)
  /\ \A k \in 1 .. Len(arvore1) : arvore2[k] = arvore1[k]

\* C25: at every step of montarArvoreGenealogica(root, maxGenerations) and in
\* its result every recorded generation is within 0..maxGenerations, a root
\* with a record is recorded at generation 0, the generations of the queue are
\* non-decreasing from head to tail, and a recorded entry is never overwritten
\* or removed.
C25_InvariantesDoLaco ==
  /\ [](Montando =>
          LET arvore == loc[1].st.arvore IN
          /\ \A k \in 1 .. Len(arvore) :
               arvore[k].geracao >= 0 /\ arvore[k].geracao <= loc[1].geracoes
          /\ (Len(arvore) >= 1 /\ Existe(loc[1].raiz))
               => arvore[1] = [id |-> loc[1].raiz, geracao |-> 0]
          /\ (pc[1] = "fim" /\ Existe(loc[1].raiz))
               => (ArvoreHas(arvore, loc[1].raiz)
                     /\ ArvoreGet(arvore, loc[1].raiz).geracao = 0)
          /\ FilaOrdenada(loc[1].st.fila))
  /\ [][(pc[1] = "laco") => Prefixo(loc[1].st.arvore, loc'[1].st.arvore)]_vars

C25_Witness ==
  /\ pc[1] = "laco"
  /\ Len(loc[1].st.arvore) >= 3
  /\ Len(loc[1].st.fila) >= 2
  /\ Head(loc[1].st.fila).geracao < loc[1].st.fila[Len(loc[1].st.fila)].geracao
  /\ loc[1].st.fila[Len(loc[1].st.fila)].geracao = loc[1].geracoes + 1

\* what the documented order of checks gives for a and b, both with a record:
\* identity, parent/child, full sibling, half sibling; -1 when none matches
PrimeiroAtalho(a, b) ==
  IF a = b THEN P100
  ELSE IF PaiOuFilho(a, b) THEN P50
  ELSE IF MesmoPaiRegistrado(a, b) /\ MesmaMaeRegistrada(a, b) THEN P50
  ELSE IF MesmoPaiRegistrado(a, b) \/ MesmaMaeRegistrada(a, b) THEN P25
  ELSE -1

\* C26: the checks are applied in the order identity, parent/child, full
\* sibling, half sibling, general formula, and the first that matches decides:
\* a parent/child pair that also shares another parent gets 50 (not 25); when
\* a shortcut matches no tree is built and no policy is read.
C26_PrimeiroQueCasa ==
  [][(resposta'.op = "consanguinidade"
        /\ resposta'.petId1 \in DOMAIN pets /\ resposta'.petId2 \in DOMAIN pets
        /\ PrimeiroAtalho(resposta'.petId1, resposta'.petId2) # -1)
       => /\ resposta'.status = 200
          /\ resposta'.valor = PrimeiroAtalho(resposta'.petId1, resposta'.petId2)
          /\ resposta'.caminho # "wright"
          /\ parametros' = parametros]_vars

(***************************************************************************)
(* Policy updates one after the other: PUT /api/parametros-pet with every  *)
(* combination of present fields, and values on both sides of the schema's *)
(* ranges.                                                                 *)
(***************************************************************************)
Campos == {"matrizDisplasia", "limiteConsanguinidade", "geracoesConsanguinidade"}

\* the limits a body may carry: null, the ends of the range, a value inside,
\* one above and one below
LimitesDoPedido == {ValorNulo, 0, P25, P100, P100 + 1, 0 - P25}

\* the generations a body may carry: null, 0, the ends of the range, one above
GeracoesDoPedido == {ValorNulo, 0, GeracoesMin, GeracoesMax, GeracoesMax + 1}

MatrizesDoPedido == {Nulo, MatrizAlternativa}

\* req.body: any non-empty set of fields (the controller answers 400 on none)
NovosDadosAtualizar ==
  { [campos |-> c,
     limiteConsanguinidade |->
       IF "limiteConsanguinidade" \in c THEN l ELSE NovosVazio.limiteConsanguinidade,
     geracoesConsanguinidade |->
       IF "geracoesConsanguinidade" \in c THEN g ELSE NovosVazio.geracoesConsanguinidade,
     matrizDisplasia |->
       IF "matrizDisplasia" \in c THEN m ELSE NovosVazio.matrizDisplasia] :
      c \in (SUBSET Campos) \ {{}}, l \in LimitesDoPedido,
      g \in GeracoesDoPedido, m \in MatrizesDoPedido }

InitAtualizar ==
  /\ pets = BaseFilhosDeS
  /\ parametros \in {<<>>, <<ParametrosPadrao>>}
  /\ resposta = RespostaVazia
  /\ pc = ProcsOciosos
  /\ loc = LocVazio

NextAtualizar ==
  \/ \E novos \in NovosDadosAtualizar : IniciarAtualizarParametros(1, novos)
  \/ FindOne(1)
  \/ Create(1)
  \/ Save(1)

SpecAtualizar == InitAtualizar /\ [][NextAtualizar]_vars

\* reg has a limit within [0, 100] and generations within [1, 10]
NosIntervalos(reg) ==
  /\ reg.limiteConsanguinidade # ValorNulo
  /\ reg.limiteConsanguinidade >= LimiteMin
  /\ reg.limiteConsanguinidade <= LimiteMax
  /\ reg.geracoesConsanguinidade # ValorNulo
  /\ reg.geracoesConsanguinidade >= GeracoesMin
  /\ reg.geracoesConsanguinidade <= GeracoesMax

\* novos carries a number outside the range of its field
ForaDosIntervalos(novos) ==
  \/ /\ "limiteConsanguinidade" \in novos.campos
     /\ novos.limiteConsanguinidade # ValorNulo
     /\ (novos.limiteConsanguinidade < LimiteMin
           \/ novos.limiteConsanguinidade > LimiteMax)
  \/ /\ "geracoesConsanguinidade" \in novos.campos
     /\ novos.geracoesConsanguinidade # ValorNulo
     /\ (novos.geracoesConsanguinidade < GeracoesMin
           \/ novos.geracoesConsanguinidade > GeracoesMax)

\* C27: after any sequence of atualizarParametros calls the stored active
\* policy has an inbreeding limit within [0, 100] and a maximum-generations
\* value within [1, 10]; an update carrying an out-of-range value fails and
\* leaves the stored policy unchanged.
C27_DentroDosIntervalos ==
  /\ [](\A i \in 1 .. Len(parametros) :
          parametros[i].ativo => NosIntervalos(parametros[i]))
  /\ [][(pc[1] = "save" /\ ForaDosIntervalos(loc[1].novos))
          => (loc'[1].status = 500 /\ parametros' = parametros)]_vars

\* process 1 has finished an atualizarParametros
TerminouAtualizar == pc[1] = "ocioso" /\ loc[1].op = "atualizarParametros"

\* C28: atualizarParametros changes only the fields present in its input: a
\* field among matrix, limit and generations that the input omits keeps its
\* previous stored value, and an input limit or generations value of 0 counts
\* as present: a limit of 0 is stored, generations of 0 make the update fail
\* on the schema's minimum instead of being skipped.
C28_SoOsCamposPresentes ==
  TerminouAtualizar =>
    LET novos == loc[1].novos
        agora == parametros[loc[1].reg]
    IN
    /\ loc[1].status = 200 =>
         LET antes == loc[1].antes IN
         /\ agora.limiteConsanguinidade =
              IF "limiteConsanguinidade" \in novos.campos
                THEN novos.limiteConsanguinidade ELSE antes.limiteConsanguinidade
         /\ agora.geracoesConsanguinidade =
              IF "geracoesConsanguinidade" \in novos.campos
                THEN novos.geracoesConsanguinidade ELSE antes.geracoesConsanguinidade
         /\ agora.matrizDisplasia =
              IF "matrizDisplasia" \in novos.campos /\ novos.matrizDisplasia # Nulo
                THEN novos.matrizDisplasia ELSE antes.matrizDisplasia
         /\ agora.ativo = antes.ativo
    /\ loc[1].status # 200 => agora = loc[1].doc
    /\ ("geracoesConsanguinidade" \in novos.campos
          /\ novos.geracoesConsanguinidade = 0) => loc[1].status = 500

C28_Witness ==
  /\ TerminouAtualizar
  /\ loc[1].status = 200
  /\ loc[1].novos.campos = {"limiteConsanguinidade"}
  /\ loc[1].novos.limiteConsanguinidade = 0
  /\ parametros[loc[1].reg].limiteConsanguinidade = 0
  /\ loc[1].antes.limiteConsanguinidade = P25
  /\ loc[1].antes.geracoesConsanguinidade = GeracoesMax
  /\ parametros[loc[1].reg].geracoesConsanguinidade = GeracoesMax
  /\ loc[1].antes.matrizDisplasia = MatrizAlternativa
  /\ parametros[loc[1].reg].matrizDisplasia = MatrizAlternativa

\* matriz with the cell [g1][g2] set to v, the row and the cell added if missing
ComCelula(matriz, g1, g2, v) ==
  IF matriz = Nulo THEN matriz
  ELSE [r \in DOMAIN matriz \cup {g1} |->
          IF r # g1 THEN matriz[r]
          ELSE [x \in (IF g1 \in DOMAIN matriz THEN DOMAIN matriz[g1] ELSE {})
                        \cup {g2} |->
                  IF x = g2 THEN v ELSE matriz[g1][x]]]

\* C29: verificarCompatibilidadeDisplasia(g1, g2) depends only on the stored
\* cell matrix[g1][g2]: its result is that cell (false when missing), and
\* changing matrix[g2][g1], for g1 different from g2, never changes it, so an
\* asymmetric matrix may answer (g1, g2) and (g2, g1) differently.
C29_SoACelulaLida ==
  (VerificouDisplasia /\ resposta.displasia1 # resposta.displasia2) =>
    LET i == FindOneAtivo(parametros)
        d1 == resposta.displasia1
        d2 == resposta.displasia2
    IN
    /\ i # 0
    /\ resposta.displasiaCompativel =
         (/\ ~SemMatriz
          /\ d1 \in DOMAIN MatrizAtiva
          /\ d2 \in DOMAIN MatrizAtiva[d1]
          /\ MatrizAtiva[d1][d2])
    /\ \A v \in BOOLEAN :
         verificarCompatibilidadeDisplasia(
           [parametros EXCEPT ![i].matrizDisplasia = ComCelula(@, d2, d1, v)],
           d1, d2).valor = resposta.displasiaCompativel

C29_Witness ==
  /\ VerificouDisplasia
  /\ resposta.displasia1 = "C" /\ resposta.displasia2 = "A"
  /\ MatrizAtiva = MatrizAlternativa
  /\ MatrizAtiva["C"]["A"] /\ ~MatrizAtiva["A"]["C"]
  /\ resposta.displasiaCompativel
  /\ ~verificarCompatibilidadeDisplasia(parametros, "A", "C").valor

(***************************************************************************)
(* DELETE /api/pets/:id between relatedness and compatibility requests.    *)
(***************************************************************************)
PedigreesDesativar == {BaseBisavo, BaseMeioIrmaos, BaseFilhosDeS}

Inativos == { i \in DOMAIN pets : ~pets[i].ativo }

\* DELETE /api/pets/:id by the owner or an admin, for a record that exists:
\* pet.ativo = false; pet.save()
DesativarPet(z) ==
  /\ z \in DOMAIN pets
  /\ pets[z].ativo
  /\ Cardinality(Inativos) < MaxDesativados
  /\ pets' = [pets EXCEPT ![z].ativo = FALSE]
  /\ UNCHANGED <<parametros, resposta, pc, loc>>

InitDesativar ==
  /\ pets \in PedigreesDesativar
  /\ parametros = <<[ParametrosPadrao EXCEPT !.limiteConsanguinidade = P25]>>
  /\ resposta = RespostaVazia
  /\ pc = ProcsOciosos
  /\ loc = LocVazio

NextDesativar ==
  \/ \E z \in PetIds : DesativarPet(z)
  \/ \E petId1 \in Consultaveis, petId2 \in Consultaveis :
       CalcularConsanguinidade(petId1, petId2)
  \/ \E petId1 \in Consultaveis, petId2 \in Consultaveis :
       VerificarCompatibilidade(petId1, petId2)

SpecDesativar == InitDesativar /\ [][NextDesativar]_vars

\* the records of ps with every active flag set
TodosAtivos(ps) == [i \in DOMAIN ps |-> [ps[i] EXCEPT !.ativo = TRUE]]

\* the answer of GET consanguinidade for A and B over the records ps
RespostaConsanguinidade(ps) ==
  LET r == calcularConsanguinidade(ps, parametros, A, B)
  IN <<r.status, r.valor, r.caminho>>

\* the answer of POST compatibilidade for A and B over the records ps
RespostaCompatibilidade(ps) ==
  LET r == verificarCompatibilidade(ps, parametros, A, B)
  IN IF r.status = "ok"
       THEN <<r.status, r.valor, r.caminho, r.generoCompativel,
              r.consanguinidadeCompativel, r.displasiaCompativel, r.compativel>>
       ELSE <<r.status, r.caminho>>

\* the recorded answer is the one the current records give, and the one the
\* same records give with every animal active
RespostaInalterada ==
  /\ (resposta.op = "consanguinidade") =>
        (/\ RespostaConsanguinidade(pets) =
              <<IF resposta.status = 200 THEN "ok" ELSE "erro",
                resposta.valor, resposta.caminho>>
         /\ RespostaConsanguinidade(pets) =
              RespostaConsanguinidade(TodosAtivos(pets)))
  /\ (resposta.op = "compatibilidade") =>
        (/\ RespostaCompatibilidade(pets) =
              (IF resposta.status = 200
                 THEN <<"ok", resposta.valor, resposta.caminho,
                        resposta.generoCompativel,
                        resposta.consanguinidadeCompativel,
                        resposta.displasiaCompativel, resposta.compativel>>
                 ELSE <<"erro", resposta.caminho>>)
         /\ RespostaCompatibilidade(pets) =
              RespostaCompatibilidade(TodosAtivos(pets)))

\* C30: soft-deleting an animal removes no record and changes no relatedness
\* or compatibility result: for every pair A, B and every animal Z the answers
\* of calcularConsanguinidade(A, B) and verificarCompatibilidade(A, B) are the
\* same with Z active and with Z deactivated, also when Z is A, B or a common
\* ancestor.
C30_DesativarNaoMuda ==
  /\ []RespostaInalterada
  /\ [][/\ DOMAIN pets' = DOMAIN pets
        /\ TodosAtivos(pets') = TodosAtivos(pets)]_vars

C30_Witness ==
  /\ resposta.op = "compatibilidade"
  /\ resposta.status = 200
  /\ resposta.caminho = "wright"
  /\ resposta.valor > 0
  /\ resposta.compativel
  /\ ~pets[A].ativo
  /\ \E z \in (Ancestrais(A) \cap Ancestrais(B)) \ {A, B} : ~pets[z].ativo

====
